---- MODULE Spec2Model ----
(***************************************************************************)
(* A model of fotoapp.py: the platform-aware resize-and-letterbox routine  *)
(* (resize, load_image, PLATFORM_SIZES), the filter table, and the menu    *)
(* loop of main with its two globals current_image and current_url.        *)
(*                                                                         *)
(* Strings are sequences of one-character strings, so that lower(),        *)
(* upper() and startswith() are computed and not assumed.  Python floats   *)
(* are IEEE-754 binary64 values, kept as a 53-bit significand (in 16-bit   *)
(* limbs, most significant first) and the exponent of its last bit;        *)
(* division and multiplication round to nearest, ties to even, as the      *)
(* hardware does.                                                          *)
(***************************************************************************)
EXTENDS Integers, Sequences, FiniteSets, TLC

(***************************************************************************)
(* Strings                                                                 *)
(***************************************************************************)
UPPERCASE ==
    <<"A","B","C","D","E","F","G","H","I","J","K","L","M",
      "N","O","P","Q","R","S","T","U","V","W","X","Y","Z">>

LOWERCASE ==
    <<"a","b","c","d","e","f","g","h","i","j","k","l","m",
      "n","o","p","q","r","s","t","u","v","w","x","y","z">>

IndexIn(table, c) == CHOOSE i \in 1..Len(table) : table[i] = c

IsIn(table, c) == \E i \in 1..Len(table) : table[i] = c

\* str.lower(): every upper-case letter becomes its lower-case letter.
lower(s) ==
    [i \in 1..Len(s) |->
        IF IsIn(UPPERCASE, s[i]) THEN LOWERCASE[IndexIn(UPPERCASE, s[i])] ELSE s[i]]

\* str.upper(): every lower-case letter becomes its upper-case letter.
upper(s) ==
    [i \in 1..Len(s) |->
        IF IsIn(LOWERCASE, s[i]) THEN UPPERCASE[IndexIn(LOWERCASE, s[i])] ELSE s[i]]

\* str.startswith(tuple of prefixes)
startswith(s, prefixes) ==
    \E p \in prefixes : Len(s) >= Len(p) /\ SubSeq(s, 1, Len(p)) = p

HttpPrefix == <<"h","t","t","p",":","/","/">>

HttpsPrefix == <<"h","t","t","p","s",":","/","/">>

(***************************************************************************)
(* The platform table and the filter table                                 *)
(***************************************************************************)
youtube == <<"y","o","u","t","u","b","e">>

instagram == <<"i","n","s","t","a","g","r","a","m">>

twitter == <<"t","w","i","t","t","e","r">>

facebook == <<"f","a","c","e","b","o","o","k">>

PLATFORM_SIZES ==
    (youtube :> <<1280, 720>>) @@ (instagram :> <<1080, 1080>>) @@
    (twitter :> <<1200, 675>>) @@ (facebook :> <<1200, 630>>)

FILTERS ==
    { <<"B","L","U","R">>,
      <<"C","O","N","T","O","U","R">>,
      <<"D","E","T","A","I","L">>,
      <<"E","D","G","E","_","E","N","H","A","N","C","E">>,
      <<"E","D","G","E","_","E","N","H","A","N","C","E","_","M","O","R","E">>,
      <<"E","M","B","O","S","S">>,
      <<"F","I","N","D","_","E","D","G","E","S">>,
      <<"S","H","A","R","P","E","N">>,
      <<"S","M","O","O","T","H">> }

(***************************************************************************)
(* Python floats (IEEE-754 binary64) on positive values.  A natural number *)
(* wider than 31 bits is a sequence of 16-bit limbs, most significant      *)
(* first; a float is [m |-> four limbs holding a 53-bit significand M with *)
(* 2^52 <= M < 2^53, e |-> the exponent of M's last bit], of value M*2^e.  *)
(***************************************************************************)
MantissaBits == 53

LimbBits == 16

Base == 2^LimbBits

\* The limb of weight Base^i (0 beyond the most significant limb)
Limb(N, i) == IF i >= 0 /\ i < Len(N) THEN N[Len(N) - i] ELSE 0

\* Number of significant bits of the natural number N > 0
BitLength(N) ==
    LET top == CHOOSE i \in 0..(Len(N) - 1) :
                   Limb(N, i) # 0 /\ \A j \in (i + 1)..(Len(N) - 1) : Limb(N, j) = 0
        b   == CHOOSE k \in 1..LimbBits : 2^(k - 1) <= Limb(N, top) /\ Limb(N, top) < 2^k
    IN  LimbBits * top + b

\* The n low limbs of floor(N / 2^s)
ShiftRight(N, s, n) ==
    LET ls == s \div LimbBits
        bs == s % LimbBits
    IN  [j \in 1..n |->
            (Limb(N, (n - j) + ls) \div 2^bs)
            + (Limb(N, (n - j) + ls + 1) % 2^bs) * 2^(LimbBits - bs)]

\* Bit k of N (bit 0 is the last)
BitAt(N, k) == (Limb(N, k \div LimbBits) \div 2^(k % LimbBits)) % 2

\* Whether any of the k low bits of N is set
LowBitsSet(N, k) ==
    \/ \E i \in 0..((k \div LimbBits) - 1) : Limb(N, i) # 0
    \/ Limb(N, k \div LimbBits) % 2^(k % LimbBits) # 0

\* M + 1 on the four limbs of a significand
AddOne(m) ==
    LET s4 == m[4] + 1
        s3 == m[3] + (s4 \div Base)
        s2 == m[2] + (s3 \div Base)
        s1 == m[1] + (s2 \div Base)
    IN  <<s1, s2 % Base, s3 % Base, s4 % Base>>

\* Round the natural number N (N >= 2^52, last bit of exponent e, sticky = 1
\* when the exact value has further bits below N) to a 53-bit significand:
\* round to nearest, ties to even.
RoundNearestEven(N, e, sticky) ==
    LET s     == BitLength(N) - MantissaBits
        kept  == ShiftRight(N, s, 4)
        guard == IF s = 0 THEN 0 ELSE BitAt(N, s - 1)
        rest  == sticky = 1 \/ (s > 1 /\ LowBitsSet(N, s - 1))
        up    == guard = 1 /\ (rest \/ kept[4] % 2 = 1)
        inc   == AddOne(kept)
    IN  IF ~up THEN [m |-> kept, e |-> e + s]
        ELSE IF inc[1] = 2 * 2^(MantissaBits - 1 - 3 * LimbBits)
             THEN [m |-> <<inc[1] \div 2, 0, 0, 0>>, e |-> e + s + 1]
             ELSE [m |-> inc, e |-> e + s]

\* t / w for positive Python ints (true division, correctly rounded): the
\* quotient to five limbs after the binary point, then rounded.
float_div(t, w) ==
    LET r0 == t % w
        r1 == (r0 * Base) % w
        r2 == (r1 * Base) % w
        r3 == (r2 * Base) % w
        r4 == (r3 * Base) % w
        r5 == (r4 * Base) % w
        Q  == <<t \div w, (r0 * Base) \div w, (r1 * Base) \div w,
                (r2 * Base) \div w, (r3 * Base) \div w, (r4 * Base) \div w>>
    IN  RoundNearestEven(Q, 0 - 5 * LimbBits, IF r5 = 0 THEN 0 ELSE 1)

\* n * f for a Python int n >= 1 and a float f: the exact product rounded
\* to 53 bits.
float_mul(n, f) ==
    LET x4 == f.m[4] * n
        x3 == f.m[3] * n + (x4 \div Base)
        x2 == f.m[2] * n + (x3 \div Base)
        x1 == f.m[1] * n + (x2 \div Base)
    IN  RoundNearestEven(<<x1 \div Base, x1 % Base, x2 % Base, x3 % Base, x4 % Base>>,
                         f.e, 0)

\* a < b on positive floats
float_lt(a, b) ==
    \/ a.e < b.e
    \/ /\ a.e = b.e
       /\ \E i \in 1..4 :
             /\ a.m[i] < b.m[i]
             /\ \A j \in 1..(i - 1) : a.m[j] = b.m[j]

\* min(a, b): the first argument unless the second is smaller
float_min(a, b) == IF float_lt(b, a) THEN b ELSE a

\* int(f): truncation toward zero, for the values below 2^31 (f.e < 0)
float_int(f) ==
    IF MantissaBits + f.e <= 0 THEN 0
    ELSE LET t == ShiftRight(f.m, 0 - f.e, 2) IN t[1] * Base + t[2]

\* max in place of min (the fill-not-fit slip)
ScaledSizeMax(width, height, target_width, target_height) ==
    LET a == float_div(target_width, width)
        b == float_div(target_height, height)
        scale == IF float_lt(a, b) THEN b ELSE a
    IN  <<float_int(float_mul(width, scale)), float_int(float_mul(height, scale))>>

\* lines 40-42: the scaled size of a width x height source on a target
ScaledSize(width, height, target_width, target_height) ==
    LET scale == float_min(float_div(target_width, width),
                           float_div(target_height, height))
    IN  <<float_int(float_mul(width, scale)), float_int(float_mul(height, scale))>>

(***************************************************************************)
(* Bounds and the inputs drawn from them                                   *)
(***************************************************************************)
MaxSide == 40

\* Sides beyond the bound: the 4000x2000 example and a 4000-pixel strip
SampleSides == {2000, 4000}

Sides == (1..MaxSide) \cup SampleSides

\* What a location holds: a decodable image of some size, nothing, or
\* bytes that are not an image.
Img(w, h) == [kind |-> "image", size |-> <<w, h>>]

Missing == [kind |-> "missing", size |-> <<>>]

Corrupt == [kind |-> "corrupt", size |-> <<>>]

Contents == {Img(w, h) : w \in Sides, h \in Sides} \cup {Missing, Corrupt}

LocalPath == <<"a",".","p","n","g">>

Url == <<"h","t","t","p",":","/","/","h","/","a">>

UrlUpper == <<"H","T","T","P","S",":","/","/","h","/","b">>

OtherPath == <<"b",".","p","n","g">>

BadPath == <<"c",".","t","x","t">>

NoPath == <<"d",".","p","n","g">>

tiktok == <<"t","i","k","t","o","k">>

PlatformInputs ==
    { youtube, <<"Y","o","u","T","u","b","e">>, instagram, twitter, <<"T","W","I","T","T","E","R">>, facebook, tiktok, <<>> }

FilterInputs == { <<"b","l","u","r">>, <<"S","h","a","r","p","e","n">>, <<"s","e","p","i","a">> }

OptionInputs == {"0", "1", "2", "3", "4", "5", "9"}

PathInputs == {LocalPath, OtherPath, BadPath, NoPath, Url, UrlUpper}

(***************************************************************************)
(* State                                                                   *)
(***************************************************************************)
VARIABLES
    fs,             \* the local files: path -> what the file holds
    web,            \* the remote resources: URL -> what a GET returns
    current_image,  \* global current_image (line 170)
    current_url,    \* global current_url (line 171)
    running,        \* the while True loop of main has not reached break
    printed,        \* the line printed by the last menu iteration
    written,        \* the files completely written by the last menu iteration
    call,           \* the last call of resize: arguments, locals and result
    load,           \* history: the last option-1 attempt
    last            \* history: the last menu iteration

vars == <<fs, web, current_image, current_url, running, printed, written,
          call, load, last>>

None_url == <<"None">>

NoneImage == [kind |-> "None", size |-> <<>>]

Exc(type, msg) == [type |-> type, msg |-> msg]

NoError == Exc("", "")

InvalidPlatform == Exc("ValueError", "Plataforma no valida.")

NotLoaded == Exc("ValueError", "Debes de cargar la imagen primero.")

InvalidFilter == Exc("ValueError", "Filtro invalido")

FileNotFound == Exc("FileNotFoundError", "No such file or directory")

Unidentified == Exc("UnidentifiedImageError", "cannot identify image file")

FetchFailed == Exc("RequestException", "request failed")

EmptyResize == Exc("ValueError", "height and width must be > 0")

WriteFailed == Exc("OSError", "cannot write file")

Line(prefix, text) == [prefix |-> prefix, text |-> text]

NoLine == Line("", "")

(***************************************************************************)
(* load_image and resize                                                   *)
(***************************************************************************)
\* Image.open(path) on a local path: the decoded image or the exception
Image_open(path) ==
    IF path \notin DOMAIN fs \/ fs[path].kind = "missing"
    THEN [exc |-> FileNotFound, image |-> NoneImage]
    ELSE IF fs[path].kind = "corrupt"
    THEN [exc |-> Unidentified, image |-> NoneImage]
    ELSE [exc |-> NoError, image |-> fs[path]]

\* requests.get(url), raise_for_status(), Image.open(BytesIO(content))
Image_fetch(url) ==
    IF url \notin DOMAIN web \/ web[url].kind = "missing"
    THEN [exc |-> FetchFailed, image |-> NoneImage]
    ELSE IF web[url].kind = "corrupt"
    THEN [exc |-> Unidentified, image |-> NoneImage]
    ELSE [exc |-> NoError, image |-> web[url]]

load_image(url) ==
    IF startswith(lower(url), {HttpPrefix, HttpsPrefix})
    THEN Image_fetch(url)
    ELSE Image_open(url)

\* line 31
PlatformKey(platform) == lower(platform)

\* the canvas created with its sides exchanged
NewCanvasSwapped(target_width, target_height) ==
    [size |-> <<target_height, target_width>>, background |-> <<255, 255, 255>>]

\* line 45: Image.new("RGB", (target_width, target_height), (255, 255, 255))
NewCanvas(target_width, target_height) ==
    [size |-> <<target_width, target_height>>, background |-> <<255, 255, 255>>]

\* the leftover space not halved
OffsetUnhalved(target, new) == <<target[1] - new[1], target[2] - new[2]>>

\* the image pasted at the top-left corner
OffsetTopLeft(target, new) == <<0, 0>>

\* line 47
Offset(target, new) == <<(target[1] - new[1]) \div 2, (target[2] - new[2]) \div 2>>

\* The record of a call that raised before the scaled size was computed
Raised(url, platform, exc) ==
    [outcome |-> "raised", url |-> url, platform |-> platform, exc |-> exc,
     source |-> <<>>, target |-> <<>>, new_size |-> <<>>, offset |-> <<>>,
     size |-> <<>>, background |-> <<>>]

NoCall ==
    [outcome |-> "not called", url |-> None_url, platform |-> <<>>, exc |-> NoError,
     source |-> <<>>, target |-> <<>>, new_size |-> <<>>, offset |-> <<>>,
     size |-> <<>>, background |-> <<>>]

\* resize(url, platform), lines 24-50.  resample_empty tells whether the
\* library's Image.resize accepts a size with a zero side (it then yields an
\* empty image) or rejects it with a ValueError.
resize(url, platform, resample_empty) ==
    LET image == load_image(url)
        key   == PlatformKey(platform)
    IN  IF image.exc # NoError THEN Raised(url, platform, image.exc)
        ELSE IF key \notin DOMAIN PLATFORM_SIZES THEN Raised(url, platform, InvalidPlatform)
        ELSE LET target == PLATFORM_SIZES[key]
                 source == image.image.size
                 new    == ScaledSize(source[1], source[2], target[1], target[2])
                 canvas == NewCanvas(target[1], target[2])
             IN  IF (new[1] < 1 \/ new[2] < 1) /\ ~resample_empty
                 THEN [Raised(url, platform, EmptyResize) EXCEPT
                          !.source = source, !.target = target, !.new_size = new]
                 ELSE [outcome |-> "image", url |-> url, platform |-> platform,
                       exc |-> NoError, source |-> source, target |-> target,
                       new_size |-> new, offset |-> Offset(target, new),
                       size |-> canvas.size, background |-> canvas.background]

\* line 48, final_image.paste(resized, offset): the pixel of the returned
\* canvas at column x, row y comes from the scaled image inside the pasted
\* box and is the background elsewhere.
Pixel(r, x, y) ==
    IF /\ r.offset[1] <= x /\ x < r.offset[1] + r.new_size[1]
       /\ r.offset[2] <= y /\ y < r.offset[2] + r.new_size[2]
    THEN [from |-> "resized", rgb |-> <<>>]
    ELSE [from |-> "background", rgb |-> r.background]

(***************************************************************************)
(* resize called on its own                                                *)
(***************************************************************************)
MenuIdle ==
    /\ current_image = NoneImage
    /\ current_url = None_url
    /\ running = TRUE
    /\ printed = NoLine
    /\ written = {}
    /\ call = NoCall
    /\ load = [attempted |-> FALSE, path |-> None_url, ok |-> FALSE]
    /\ last = [option |-> "", exc |-> NoError, path |-> None_url]

InitResize ==
    /\ \E c \in Contents :
          /\ fs = (LocalPath :> c)
          /\ web = (Url :> c) @@ (UrlUpper :> c)
    /\ MenuIdle

ResizeCall ==
    /\ call.outcome = "not called"
    /\ \E url \in {LocalPath, Url, UrlUpper}, platform \in PlatformInputs,
          resample_empty \in BOOLEAN :
          call' = resize(url, platform, resample_empty)
    /\ UNCHANGED <<fs, web, current_image, current_url, running, printed,
                   written, load, last>>

NextResize == ResizeCall

SpecResize == InitResize /\ [][NextResize]_vars

(***************************************************************************)
(* The menu loop of main                                                   *)
(***************************************************************************)
MenuFiles ==
    (LocalPath :> Img(4000, 2000)) @@ (OtherPath :> Img(4000, 1)) @@ (BadPath :> Corrupt)

MenuWeb == (Url :> Img(4000, 2000)) @@ (UrlUpper :> Img(11, 33))

Init ==
    /\ fs = MenuFiles
    /\ web = MenuWeb
    /\ MenuIdle

\* a failed load that leaves the previous image in place
ImageAfterLoadKept(opened, previous) ==
    IF opened.exc = NoError THEN opened.image ELSE previous

\* lines 194-199: current_image after Image.open(current_url) or its failure
ImageAfterLoad(opened, previous) ==
    IF opened.exc = NoError THEN opened.image ELSE NoneImage

\* lines 191-199
Option1 ==
    /\ running
    /\ \E path \in PathInputs :
          LET opened == Image_open(path)
          IN  /\ current_url' = path
              /\ current_image' = ImageAfterLoad(opened, current_image)
              /\ printed' = IF opened.exc = NoError
                            THEN Line("[+] Imagen cargada correctamente [+]", "")
                            ELSE Line("[x] Error al cargar la imagen [x] > ", opened.exc.msg)
              /\ load' = [attempted |-> TRUE, path |-> path, ok |-> opened.exc = NoError]
              /\ last' = [option |-> "1", exc |-> opened.exc, path |-> path]
    /\ written' = {}
    /\ UNCHANGED <<fs, web, running, call>>

\* an exception that escapes the loop
FinishUncaught(option, exc, path, success) ==
    /\ printed' = IF exc = NoError THEN success ELSE NoLine
    /\ running' = (exc = NoError)
    /\ last' = [option |-> option, exc |-> exc, path |-> path]
    /\ UNCHANGED <<current_image, current_url, load, fs, web>>

\* The end of an iteration for options 2-5: the success line when nothing
\* was raised, else the handler of lines 231-232; the loop goes on.
Finish(option, exc, path, success) ==
    /\ printed' = IF exc = NoError THEN success ELSE Line("Error: ", exc.msg)
    /\ running' = TRUE
    /\ last' = [option |-> option, exc |-> exc, path |-> path]
    /\ UNCHANGED <<current_image, current_url, load, fs, web>>

\* lines 202-203
Refused(option) ==
    /\ current_image = NoneImage
    /\ written' = {}
    /\ call' = call
    /\ Finish(option, NotLoaded, None_url, NoLine)

\* lines 205-209
Option2 ==
    /\ running
    /\ \/ Refused("2")
       \/ /\ current_image # NoneImage
          /\ \E platform \in PlatformInputs, resample_empty \in BOOLEAN, save_ok \in BOOLEAN :
                LET output == resize(current_url, platform, resample_empty)
                    exc    == IF output.exc # NoError THEN output.exc
                              ELSE IF ~save_ok THEN WriteFailed ELSE NoError
                IN  /\ call' = output
                    /\ written' = IF exc = NoError THEN {<<"r","e","d","i","m","e","n","s","i","o","n","a","d","a",".","p","n","g">>} ELSE {}
                    /\ Finish("2", exc, current_url,
                              Line("[+] La imagen acaba de ser redimensionada y guardada como redimensionada.png [+]", ""))

\* lines 211-214, equalize (52-61) and compare (63-83)
Option3 ==
    /\ running
    /\ \/ Refused("3")
       \/ /\ current_image # NoneImage
          /\ \E save_ok \in BOOLEAN :
                LET img == Image_open(current_url)
                    exc == IF img.exc # NoError THEN img.exc
                           ELSE IF ~save_ok THEN WriteFailed ELSE NoError
                IN  /\ written' = IF exc = NoError THEN {<<"e","c","u","a","l","i","z","a","d","a",".","p","n","g">>} ELSE {}
                    /\ call' = call
                    /\ Finish("3", exc, current_url,
                              Line("[+] Imagen ecualizada y guardada como ecualizada.png [+]", ""))

\* lines 216-220 and apply_filter (97-123); failing_save is the save that
\* fails: 0 none, 1 result_NAME.jpg, 2 filter_name.png
Option4 ==
    /\ running
    /\ \/ Refused("4")
       \/ /\ current_image # NoneImage
          /\ \E filter \in FilterInputs, failing_save \in 0..2 :
                LET filter_name == upper(filter)
                    img == Image_open(current_url)
                    exc == IF filter_name \notin FILTERS THEN InvalidFilter
                           ELSE IF img.exc # NoError THEN img.exc
                           ELSE IF failing_save # 0 THEN WriteFailed ELSE NoError
                    result_file == <<"r","e","s","u","l","t","_">> \o filter_name \o <<".","j","p","g">>
                    filter_file == <<"f","i","l","t","e","r","_">> \o filter \o <<".","p","n","g">>
                IN  /\ written' = IF exc = NoError THEN {result_file, filter_file}
                                  ELSE IF exc = WriteFailed /\ failing_save = 2
                                  THEN {result_file} ELSE {}
                    /\ call' = call
                    /\ Finish("4", exc, current_url,
                              Line("[+] Imagen filtrada guardada como ", "filter_{filter}.png"))

\* lines 222-224 and sketch_person (150-167)
Option5 ==
    /\ running
    /\ \/ Refused("5")
       \/ /\ current_image # NoneImage
          /\ \E save_ok \in BOOLEAN :
                LET img == Image_open(current_url)
                    exc == IF img.exc # NoError THEN img.exc
                           ELSE IF ~save_ok THEN WriteFailed ELSE NoError
                IN  /\ written' = IF exc = NoError THEN {<<"b","o","c","e","t","o",".","p","n","g">>} ELSE {}
                    /\ call' = call
                    /\ Finish("5", exc, current_url,
                              Line("[+] Boceto generado como boceto.png [+]", ""))

\* lines 226-228
Option0 ==
    /\ running
    /\ running' = FALSE
    /\ printed' = Line("saliendo...", "")
    /\ written' = {}
    /\ last' = [option |-> "0", exc |-> NoError, path |-> None_url]
    /\ UNCHANGED <<fs, web, current_image, current_url, call, load>>

\* lines 229-230
OptionInvalid ==
    /\ running
    /\ \E option \in OptionInputs \ {"0", "1", "2", "3", "4", "5"} :
          last' = [option |-> option, exc |-> NoError, path |-> None_url]
    /\ printed' = Line("Opcion invalida", "")
    /\ written' = {}
    /\ UNCHANGED <<fs, web, current_image, current_url, running, call, load>>

Next ==
    \/ Option1
    \/ Option2
    \/ Option3
    \/ Option4
    \/ Option5
    \/ Option0
    \/ OptionInvalid

Spec == Init /\ [][Next]_vars

(***************************************************************************)
(* Properties                                                              *)
(***************************************************************************)
IsHttp(url) == startswith(lower(url), {HttpPrefix, HttpsPrefix})

Called == call.outcome # "not called"

Sized == call.new_size # <<>>

Pasted == call.offset # <<>>

\* C1: when the source loads and the platform name matches one of the four
\* profiles ignoring case, every image resize returns has exactly that
\* profile's width and height, and resize returns one unless the library
\* refused an empty scaled size.
C1_ExactCanvas ==
    \A p \in { <<youtube, 1280, 720>>, <<instagram, 1080, 1080>>,
               <<twitter, 1200, 675>>, <<facebook, 1200, 630>> } :
        (Called /\ lower(call.platform) = p[1] /\ load_image(call.url).exc = NoError)
        => /\ call.outcome = "image" => call.size = <<p[2], p[3]>>
           /\ call.outcome = "raised" => call.exc = EmptyResize

C1_Witness ==
    /\ call.outcome = "image"
    /\ call.platform # lower(call.platform)
    /\ call.size = <<1280, 720>>
    /\ call.source = <<3, 40>>

\* C2: the scaled size never exceeds the target on either axis, so both
\* paste offsets are >= 0 and the pasted box lies inside the canvas.
C2_NeverOverflows ==
    /\ Sized => /\ call.new_size[1] <= call.target[1]
                /\ call.new_size[2] <= call.target[2]
    /\ Pasted => /\ call.offset[1] >= 0
                 /\ call.offset[2] >= 0
                 /\ call.offset[1] + call.new_size[1] <= call.size[1]
                 /\ call.offset[2] + call.new_size[2] <= call.size[2]

C2_Witness ==
    /\ call.outcome = "image"
    /\ call.source = <<7, 40>>
    /\ call.new_size[2] = call.target[2]
    /\ call.new_size[1] < call.target[1]

\* C3: one scaled dimension equals its target dimension and the other is the
\* floor of the exactly proportional value.
C3_ExactFit ==
    Sized =>
        LET w  == call.source[1]
            h  == call.source[2]
            tw == call.target[1]
            th == call.target[2]
        IN  \/ call.new_size[1] = tw /\ call.new_size[2] = (h * tw) \div w
            \/ call.new_size[2] = th /\ call.new_size[1] = (w * th) \div h

\* C4: the offsets are the floor of half the leftover space, so on each axis
\* the margin after the image minus the margin before it is 0 or 1.
C4_Centred ==
    Pasted =>
        \A i \in {1, 2} :
            LET leftover == call.size[i] - call.new_size[i]
                before   == call.offset[i]
                after    == leftover - before
            IN  /\ 2 * before <= leftover
                /\ leftover < 2 * before + 2
                /\ after - before \in {0, 1}

C4_Witness ==
    /\ call.outcome = "image"
    /\ (call.size[2] - call.new_size[2]) % 2 = 1
    /\ call.offset[2] > 0
    /\ call.offset[1] = 0

\* C5: a platform name that matches no profile makes resize raise
\* ValueError "Plataforma no valida.", whatever the source is.
C5_InvalidPlatformRaised ==
    (Called /\ lower(call.platform) \notin {youtube, instagram, twitter, facebook})
    => call.outcome = "raised" /\ call.exc = InvalidPlatform

\* C6: a 4000x2000 source on youtube is scaled to 1280x640 and pasted at
\* (0, 40) on a 1280x720 canvas: 40 white rows above, 40 white rows below,
\* rows 40..679 covered by the scaled image.
C6_Example ==
    ( /\ Called
      /\ load_image(call.url).image.size = <<4000, 2000>>
      /\ lower(call.platform) = youtube )
    => /\ call.outcome = "image"
       /\ call.new_size = <<1280, 640>>
       /\ call.offset = <<0, 40>>
       /\ call.size = <<1280, 720>>
       /\ \A x \in 0..1279 :
             /\ \A y \in (0..39) \cup (680..719) :
                   Pixel(call, x, y) = [from |-> "background", rgb |-> <<255, 255, 255>>]
             /\ \A y \in 40..679 : Pixel(call, x, y).from = "resized"

C6_Witness ==
    /\ call.outcome = "image"
    /\ call.source = <<4000, 2000>>
    /\ call.target = <<1280, 720>>

\* C7: after option 1 is given an HTTP(S) URL that can be fetched and
\* decoded, the image is recorded as loaded, and a following option 2 is not
\* refused with "Debes de cargar la imagen primero.".
C7_UrlLoads ==
    (load.attempted /\ IsHttp(load.path) /\ Image_fetch(load.path).exc = NoError)
    => /\ current_image # NoneImage
       /\ last.option = "2" => last.exc # NotLoaded

\* C8: every failure in a menu option is caught and printed and the loop goes
\* on; a failing option 2-5 leaves current_image and current_url unchanged
\* and prints no success line; the loop ends only on option "0".
C8_CaughtAndContinues ==
    [][ /\ last'.exc # NoError =>
            /\ running'
            /\ printed'.text = last'.exc.msg
            /\ printed'.prefix \in {"Error: ", "[x] Error al cargar la imagen [x] > "}
        /\ (last'.option \in {"2", "3", "4", "5"} /\ last'.exc # NoError) =>
            /\ current_image' = current_image
            /\ current_url' = current_url
            /\ printed'.prefix = "Error: "
        /\ ~running' => last'.option = "0" ]_vars

C8_Witness ==
    /\ running
    /\ last.option = "4"
    /\ last.exc = WriteFailed
    /\ written # {}
    /\ current_image # NoneImage

\* C9: both scaled dimensions are at least 1 pixel for every source of
\* positive width and height.
C9_ScaledNonEmpty ==
    Sized => call.new_size[1] >= 1 /\ call.new_size[2] >= 1

\* C10: options 2-5 act only when the most recent load succeeded, and only
\* on the path of that load; a failed load clears current_image and the
\* options are refused until a new load succeeds.
C10_ActsOnLastLoad ==
    /\ current_image # NoneImage =>
          load.attempted /\ load.ok /\ load.path = current_url
    /\ (load.attempted /\ ~load.ok) => current_image = NoneImage
    /\ last.option \in {"2", "3", "4", "5"} =>
          IF load.ok
          THEN last.path = load.path /\ last.exc # NotLoaded
          ELSE last.path = None_url /\ last.exc = NotLoaded
    /\ (last.option = "2" /\ last.exc # NotLoaded) => call.url = load.path

C10_Witness ==
    /\ Called
    /\ load.attempted
    /\ ~load.ok
    /\ last.option = "3"
    /\ last.exc = NotLoaded

====
